---- MODULE Spec2Model ----
(***************************************************************************)
(* Model of the WebSocket connection hub of robotics-core1 (WSClient in    *)
(* go-layer/internal/api), the gateway handler that creates it, and the    *)
(* message broker it talks to.  Every connection runs two goroutines,      *)
(* readPump and writePump, that share the buffered channel c.send.  The    *)
(* broker package (messaging.Broker) is not part of the sources; it is     *)
(* modelled from its documented contract.                                  *)
(***************************************************************************)
EXTENDS Integers, Sequences, FiniteSets, TLC

\* ---------------------------------------------------------------- bounds
\* capacity of c.send; the program uses 256 (make(chan []byte, 256))
SendCap == 1
\* largest clock reading handed out by time.Now().UnixNano()
MaxClock == 1
\* number of inbound frames the peers send altogether
MaxFrames == 3

Conns == {1, 2}
Topics == {"a", "b"}
EmptyTopic == ""
NoPayload == "nil"
Payloads == {"p"}

\* ------------------------------------------------------------- envelopes
\* createMessage: "topic" is left out when empty, "payload" when nil
createMessage(msgType, topic, payload) ==
    [type |-> msgType, topic |-> topic, payload |-> payload]

\* sendError builds the envelope {type: error, payload: {code, message}}
ErrorEnvelope(code) == createMessage("error", EmptyTopic, code)

\* inbound frames as decoded by handleMessage; Malformed does not decode
Malformed == [type |-> "malformed", topic |-> EmptyTopic, payload |-> NoPayload]
NoFrame == [type |-> "none", topic |-> EmptyTopic, payload |-> NoPayload]

\* no HTTP request is being served; no response has been written
NoRequest == [path |-> "none", method |-> "none", body |-> "none"]
NoResponse == [status |-> 0, key |-> "none", val |-> "none"]
Frames ==
    [type : {"subscribe", "unsubscribe"}, topic : Topics \cup {EmptyTopic},
     payload : {NoPayload}]
    \cup [type : {"publish"}, topic : Topics \cup {EmptyTopic}, payload : Payloads]
    \cup [type : {"ping"}, topic : {EmptyTopic}, payload : {NoPayload}]
    \cup {Malformed}

VARIABLES
    now,            \* the clock read by generateClientID
    gw,             \* position of Server.handleWebSocket for each connection
    conn,           \* state of the transport c.conn
    clientID,       \* c.clientID
    subscriptions,  \* c.subscriptions, a slice of topics
    send,           \* buffer of the channel c.send
    closed,         \* whether c.send has been closed
    rd,             \* position of readPump
    wr,             \* position of writePump
    pending,        \* the envelope of a blocking "c.send <- ..." in progress
    fan,            \* callbacks Broker.Publish has still to invoke for readPump c
    pubMsg,         \* the envelope the callbacks of that Publish enqueue
    table,          \* the broker's topic -> subscriptions table
    want,           \* reference set: subscribe/unsubscribe frames applied in order
    nframes,        \* frames read so far by all connections
    last,           \* the frame read most recently and the connection that read it
    panicked,       \* a goroutine panicked (send on a closed channel)
    mainPc,         \* position of main
    svc,            \* state of the broker, the collaborators and the API server
    listening,      \* the HTTP listener of the API server accepts requests
    ctxDone,        \* the context of main has been cancelled
    http            \* position of an HTTP request handler (handleStatus)

\* the state of the connections and of the broker's table
\* wire[c]: the envelopes written to the transport of connection c, in the
\* order of the writes, while a capture is running; recording: a capture runs
VARIABLES wire, recording

\* unsubErrors: the "Failed to unsubscribe" entries of the log, each with the
\* connection, the topic and the function that logged it
VARIABLE unsubErrors

hub == <<now, gw, conn, clientID, subscriptions, send, closed, rd, wr,
         pending, fan, pubMsg, table, want, nframes, last, panicked>>

\* the state of main, of the services it starts and of the HTTP server
coord == <<mainPc, svc, listening, ctxDone, http>>

\* req: the HTTP request being served; resp: the response written for it;
\* calls: the collaborator and Broker operations its handler has invoked
VARIABLES req, resp, calls

web == <<req, resp, calls>>

peer == <<wire, recording, unsubErrors>>

vars == <<hub, coord, peer, web>>

\* the services main initialises, in the order of their initialisation
Services == <<"broker", "cloud", "core", "api">>

\* the process runs: no goroutine has panicked and main has not returned
Alive == ~panicked /\ mainPc \notin {"fatal", "exited"}

\* ------------------------------------------------------------- helpers
Range(s) == {s[i] : i \in 1..Len(s)}

Contains(s, x) == \E i \in 1..Len(s) : s[i] = x

RemoveAt(s, i) == SubSeq(s, 1, i - 1) \o SubSeq(s, i + 1, Len(s))

IndexOf(s, x) == CHOOSE i \in 1..Len(s) : s[i] = x /\ \A j \in 1..(i - 1) : s[j] # x

\* generateClientID: "ws-" followed by the clock reading
generateClientID(t) == t

\* ------------------------------------------------------------- broker
\* Broker.Subscribe(topic, callback): rejects the empty topic
BrokerSubscribeFails(topic) == topic = EmptyTopic

\* Broker.Subscribe: registers the callback of connection c under its identifier
BrokerSubscribe(tbl, topic, id, c) ==
    [tbl EXCEPT ![topic] = Append(@, [id |-> id, cb |-> c])]

\* Broker.Unsubscribe(topic, connectionID) reports an error when nothing matches
BrokerUnsubscribeFails(tbl, topic, id) ==
    ~ \E i \in 1..Len(tbl[topic]) : tbl[topic][i].id = id

\* Broker.Unsubscribe: removes what is registered under the identifier
BrokerUnsubscribe(tbl, topic, id) ==
    [tbl EXCEPT ![topic] = SelectSeq(@, LAMBDA e : e.id # id)]

\* Broker.Publish rejects the empty topic
BrokerPublishFails(topic) == topic = EmptyTopic

\* Broker.Publish: the callbacks registered for the topic when it is called
BrokerSnapshot(tbl, topic) == tbl[topic]

\* the log entries for the topics of subs whose Broker.Unsubscribe returns
\* an error
FailedUnsubscribes(c, subs, site) ==
    {[c |-> c, topic |-> subs[i], site |-> site] :
        i \in {j \in 1..Len(subs) : BrokerUnsubscribeFails(table, subs[j], clientID[c])}}

\* ------------------------------------------------------------- state
\* NewWSClient has run for no connection yet and the table is empty
HubInit ==
    /\ now = 0
    /\ gw = [c \in Conns |-> "idle"]
    /\ conn = [c \in Conns |-> "none"]
    /\ clientID = [c \in Conns |-> -1]
    /\ subscriptions = [c \in Conns |-> <<>>]
    /\ send = [c \in Conns |-> <<>>]
    /\ closed = [c \in Conns |-> FALSE]
    /\ rd = [c \in Conns |-> "none"]
    /\ wr = [c \in Conns |-> "none"]
    /\ pending = [c \in Conns |-> NoFrame]
    /\ fan = [c \in Conns |-> <<>>]
    /\ pubMsg = [c \in Conns |-> NoFrame]
    /\ table = [t \in Topics |-> <<>>]
    /\ want = [c \in Conns |-> {}]
    /\ nframes = 0
    /\ last = [c |-> 0, f |-> NoFrame]
    /\ panicked = FALSE
    /\ wire = [c \in Conns |-> <<>>]
    /\ recording = FALSE
    /\ unsubErrors = {}
    /\ req = NoRequest
    /\ resp = NoResponse
    /\ calls = <<>>

\* the gateway is up: every service runs and main waits for the signal
Init ==
    /\ HubInit
    /\ mainPc = "wait"
    /\ svc = [s \in Range(Services) |-> "running"]
    /\ listening = TRUE
    /\ ctxDone = FALSE
    /\ http = "none"

\* the process has just been started: main has initialised nothing yet
InitMain ==
    /\ HubInit
    /\ mainPc = "init"
    /\ svc = [s \in Range(Services) |-> "none"]
    /\ listening = FALSE
    /\ ctxDone = FALSE
    /\ http = "none"

\* the clock advances
Tick ==
    /\ Alive
    /\ UNCHANGED <<coord, peer, web>>
    /\ now < MaxClock
    /\ \E c \in Conns : gw[c] = "idle"
    /\ now' = now + 1
    /\ UNCHANGED <<gw, conn, clientID, subscriptions, send, closed, rd, wr,
                   pending, fan, pubMsg, table, want, nframes, last,
                   panicked>>

\* handleWebSocket up to client.Handle(): upgrade, NewWSClient, start both pumps
Accept(c) ==
    /\ Alive
    /\ UNCHANGED <<coord, peer, web>>
    /\ listening
    /\ gw[c] = "idle"
    /\ \A d \in Conns : d < c => gw[d] # "idle"
    /\ gw' = [gw EXCEPT ![c] = "upgraded"]
    /\ conn' = [conn EXCEPT ![c] = "open"]
    /\ clientID' = [clientID EXCEPT ![c] = generateClientID(now)]
    /\ subscriptions' = [subscriptions EXCEPT ![c] = <<>>]
    /\ send' = [send EXCEPT ![c] = <<>>]
    /\ rd' = [rd EXCEPT ![c] = "read"]
    /\ wr' = [wr EXCEPT ![c] = "run"]
    /\ UNCHANGED <<now, closed, pending, fan, pubMsg, table, want, nframes,
                   last, panicked>>

\* handleWebSocket returns: its deferred conn.Close() runs
HandlerReturn(c) ==
    /\ Alive
    /\ UNCHANGED <<coord, peer, web>>
    /\ gw[c] = "upgraded"
    /\ gw' = [gw EXCEPT ![c] = "returned"]
    /\ conn' = [conn EXCEPT ![c] = "closed"]
    /\ UNCHANGED <<now, clientID, subscriptions, send, closed, rd, wr,
                   pending, fan, pubMsg, table, want, nframes, last,
                   panicked>>

\* the peer goes away or stops answering: reads and writes fail from now on
PeerFail(c) ==
    /\ Alive
    /\ UNCHANGED <<coord, peer, web>>
    /\ conn[c] = "open"
    /\ conn' = [conn EXCEPT ![c] = "closed"]
    /\ UNCHANGED <<now, gw, clientID, subscriptions, send, closed, rd, wr,
                   pending, fan, pubMsg, table, want, nframes, last,
                   panicked>>

\* ------------------------------------------------------------- readPump
\* the reference model of a connection's subscription set: a successful
\* subscribe adds the topic, an unsubscribe removes it
ApplyFrame(set, f) ==
    IF f.type = "subscribe" /\ ~BrokerSubscribeFails(f.topic) THEN set \cup {f.topic}
    ELSE IF f.type = "unsubscribe" THEN set \ {f.topic}
    ELSE set

\* the handler returns to the read loop
Return(c) ==
    rd' = [rd EXCEPT ![c] = "read"]

\* the handler reaches a blocking "c.send <- env"
BlockOnSend(c, env) ==
    /\ rd' = [rd EXCEPT ![c] = "send"]
    /\ pending' = [pending EXCEPT ![c] = env]

\* sendError(code, message)
sendError(c, code) == BlockOnSend(c, ErrorEnvelope(code))

\* handleSubscribe without its "already subscribed" check
handleSubscribe_NoDuplicateCheck(c, topic) ==
    IF BrokerSubscribeFails(topic)
    THEN /\ sendError(c, "subscription_failed")
         /\ UNCHANGED <<subscriptions, table>>
    ELSE /\ table' = BrokerSubscribe(table, topic, clientID[c], c)
         /\ subscriptions' = [subscriptions EXCEPT ![c] = Append(@, topic)]
         /\ BlockOnSend(c, createMessage("subscribed", topic, NoPayload))

\* handleSubscribe(topic) up to its blocking send of the ack
handleSubscribe(c, topic) ==
    IF Contains(subscriptions[c], topic)
    THEN /\ Return(c)
         /\ UNCHANGED <<subscriptions, table, pending>>
    ELSE IF BrokerSubscribeFails(topic)
    THEN /\ sendError(c, "subscription_failed")
         /\ UNCHANGED <<subscriptions, table>>
    ELSE /\ table' = BrokerSubscribe(table, topic, clientID[c], c)
         /\ subscriptions' = [subscriptions EXCEPT ![c] = Append(@, topic)]
         /\ BlockOnSend(c, createMessage("subscribed", topic, NoPayload))

\* handleUnsubscribe that leaves the topic in c.subscriptions
handleUnsubscribe_KeepsTopic(c, topic) ==
    IF Contains(subscriptions[c], topic)
    THEN /\ table' = BrokerUnsubscribe(table, topic, clientID[c])
         /\ UNCHANGED subscriptions
         /\ BlockOnSend(c, createMessage("unsubscribed", topic, NoPayload))
    ELSE /\ Return(c)
         /\ UNCHANGED <<subscriptions, table, pending>>

\* handleUnsubscribe that acks whether or not the topic was found
handleUnsubscribe_AlwaysAcks(c, topic) ==
    IF Contains(subscriptions[c], topic)
    THEN /\ table' = BrokerUnsubscribe(table, topic, clientID[c])
         /\ subscriptions' = [subscriptions EXCEPT
                ![c] = RemoveAt(@, IndexOf(@, topic))]
         /\ BlockOnSend(c, createMessage("unsubscribed", topic, NoPayload))
    ELSE /\ BlockOnSend(c, createMessage("unsubscribed", topic, NoPayload))
         /\ UNCHANGED <<subscriptions, table>>

\* handleUnsubscribe(topic) up to its blocking send of the ack
handleUnsubscribe(c, topic) ==
    IF Contains(subscriptions[c], topic)
    THEN /\ table' = BrokerUnsubscribe(table, topic, clientID[c])
         /\ subscriptions' = [subscriptions EXCEPT
                ![c] = RemoveAt(@, IndexOf(@, topic))]
         /\ BlockOnSend(c, createMessage("unsubscribed", topic, NoPayload))
    ELSE /\ Return(c)
         /\ UNCHANGED <<subscriptions, table, pending>>

\* handlePublish that reports a topic without subscribers as a failure
handlePublish_NoSubscribersFails(c, topic, payload) ==
    IF BrokerPublishFails(topic) \/ BrokerSnapshot(table, topic) = <<>>
    THEN /\ sendError(c, "publish_failed")
         /\ UNCHANGED <<fan, pubMsg>>
    ELSE /\ fan' = [fan EXCEPT ![c] = BrokerSnapshot(table, topic)]
         /\ pubMsg' = [pubMsg EXCEPT ![c] = createMessage("message", topic, payload)]
         /\ rd' = [rd EXCEPT ![c] = "pub"]
         /\ UNCHANGED pending

\* handlePublish that drops the error of Broker.Publish
handlePublish_FailureIgnored(c, topic, payload) ==
    IF BrokerPublishFails(topic) \/ BrokerSnapshot(table, topic) = <<>>
    THEN /\ Return(c)
         /\ UNCHANGED <<pending, fan, pubMsg>>
    ELSE /\ fan' = [fan EXCEPT ![c] = BrokerSnapshot(table, topic)]
         /\ pubMsg' = [pubMsg EXCEPT ![c] = createMessage("message", topic, payload)]
         /\ rd' = [rd EXCEPT ![c] = "pub"]
         /\ UNCHANGED pending

\* handlePublish(topic, payload) up to the first callback of Broker.Publish
handlePublish(c, topic, payload) ==
    IF BrokerPublishFails(topic)
    THEN /\ sendError(c, "publish_failed")
         /\ UNCHANGED <<fan, pubMsg>>
    ELSE IF BrokerSnapshot(table, topic) = <<>>
    THEN /\ Return(c)
         /\ UNCHANGED <<pending, fan, pubMsg>>
    ELSE /\ fan' = [fan EXCEPT ![c] = BrokerSnapshot(table, topic)]
         /\ pubMsg' = [pubMsg EXCEPT ![c] = createMessage("message", topic, payload)]
         /\ rd' = [rd EXCEPT ![c] = "pub"]
         /\ UNCHANGED pending

\* handleMessage whose default branch only logs
handleMessage_UnknownIgnored(c, msg) ==
    CASE msg.type = "malformed" ->
           /\ sendError(c, "invalid_message")
           /\ UNCHANGED <<subscriptions, table, fan, pubMsg>>
      [] msg.type = "subscribe" ->
           /\ handleSubscribe(c, msg.topic)
           /\ UNCHANGED <<fan, pubMsg>>
      [] msg.type = "unsubscribe" ->
           /\ handleUnsubscribe(c, msg.topic)
           /\ UNCHANGED <<fan, pubMsg>>
      [] msg.type = "publish" ->
           /\ handlePublish(c, msg.topic, msg.payload)
           /\ UNCHANGED <<subscriptions, table>>
      [] OTHER ->
           /\ Return(c)
           /\ UNCHANGED <<subscriptions, table, fan, pubMsg, pending>>

\* handleMessage(message): decode and dispatch on the type
handleMessage(c, msg) ==
    CASE msg.type = "malformed" ->
           /\ sendError(c, "invalid_message")
           /\ UNCHANGED <<subscriptions, table, fan, pubMsg>>
      [] msg.type = "subscribe" ->
           /\ handleSubscribe(c, msg.topic)
           /\ UNCHANGED <<fan, pubMsg>>
      [] msg.type = "unsubscribe" ->
           /\ handleUnsubscribe(c, msg.topic)
           /\ UNCHANGED <<fan, pubMsg>>
      [] msg.type = "publish" ->
           /\ handlePublish(c, msg.topic, msg.payload)
           /\ UNCHANGED <<subscriptions, table>>
      [] OTHER ->
           /\ sendError(c, "unknown_type")
           /\ UNCHANGED <<subscriptions, table, fan, pubMsg>>

\* readPump: c.conn.ReadMessage() returns the next frame of the peer and
\* handleMessage runs up to the point where it returns or blocks
ReadMessage(c, f) ==
    /\ Alive
    /\ UNCHANGED <<coord, wire, recording, web>>
    /\ rd[c] = "read"
    /\ conn[c] = "open"
    /\ nframes < MaxFrames
    /\ handleMessage(c, f)
    /\ want' = [want EXCEPT ![c] = ApplyFrame(@, f)]
    /\ nframes' = nframes + 1
    /\ last' = [c |-> c, f |-> f]
    /\ UNCHANGED <<now, gw, conn, clientID, send, closed, wr, panicked>>
    /\ unsubErrors' = unsubErrors \cup
          IF f.type = "unsubscribe" /\ Contains(subscriptions[c], f.topic)
          THEN FailedUnsubscribes(c, <<f.topic>>, "handleUnsubscribe")
          ELSE {}

\* the blocking "c.send <- env" of an ack or an error completes
SendBlocked(c) ==
    /\ Alive
    /\ UNCHANGED <<coord, peer, web>>
    /\ rd[c] = "send"
    /\ Len(send[c]) < SendCap
    /\ send' = [send EXCEPT ![c] = Append(@, pending[c])]
    /\ pending' = [pending EXCEPT ![c] = NoFrame]
    /\ Return(c)
    /\ UNCHANGED <<now, gw, conn, clientID, subscriptions, closed, wr, fan,
                   pubMsg, table, want, nframes, last, panicked>>

\* a delivery callback without the default branch of its select
Callback_NoDefault(d, env) ==
    IF closed[d]
    THEN /\ panicked' = TRUE
         /\ UNCHANGED send
    ELSE /\ send' = [send EXCEPT ![d] = Append(@, env)]
         /\ UNCHANGED panicked

\* a delivery callback that gives up when any connection's queue is full
Callback_AnyQueueFull(d, env) ==
    IF closed[d]
    THEN /\ panicked' = TRUE
         /\ UNCHANGED send
    ELSE IF \A e \in Conns : Len(send[e]) < SendCap
    THEN /\ send' = [send EXCEPT ![d] = Append(@, env)]
         /\ UNCHANGED panicked
    ELSE UNCHANGED <<send, panicked>>

\* the delivery callback registered by handleSubscribe, run for connection d:
\* select { case c.send <- message: default: }
Callback(d, env) ==
    IF closed[d]
    THEN /\ panicked' = TRUE
         /\ UNCHANGED send
    ELSE IF Len(send[d]) < SendCap
    THEN /\ send' = [send EXCEPT ![d] = Append(@, env)]
         /\ UNCHANGED panicked
    ELSE UNCHANGED <<send, panicked>>

\* Broker.Publish, called by readPump c, invokes one more callback
Deliver(c, i) ==
    /\ Alive
    /\ UNCHANGED <<coord, peer, web>>
    /\ rd[c] = "pub"
    /\ i \in 1..Len(fan[c])
    /\ Callback(fan[c][i].cb, pubMsg[c])
    /\ fan' = [fan EXCEPT ![c] = RemoveAt(@, i)]
    /\ IF Len(fan[c]) = 1
       THEN /\ Return(c)
            /\ pubMsg' = [pubMsg EXCEPT ![c] = NoFrame]
       ELSE UNCHANGED <<rd, pubMsg>>
    /\ UNCHANGED <<now, gw, conn, clientID, subscriptions, closed, wr,
                   pending, table, want, nframes, last>>

\* unsubscribeAll: Broker.Unsubscribe for every topic of the slice
RECURSIVE UnsubscribeEach(_, _, _)
UnsubscribeEach(tbl, subs, id) ==
    IF subs = <<>> THEN tbl
    ELSE UnsubscribeEach(BrokerUnsubscribe(tbl, Head(subs), id), Tail(subs), id)

\* unsubscribeAll that returns at the first Unsubscribe error
unsubscribeAll_StopsAtFailure(c) ==
    LET subs == subscriptions[c]
        bad == {i \in 1..Len(subs) : BrokerUnsubscribeFails(table, subs[i], clientID[c])}
        done == IF bad = {} THEN subs
                ELSE SubSeq(subs, 1, (CHOOSE i \in bad : \A j \in bad : i <= j) - 1)
    IN  /\ table' = UnsubscribeEach(table, done, clientID[c])
        /\ subscriptions' = [subscriptions EXCEPT ![c] = <<>>]

\* unsubscribeAll that only forgets the slice
unsubscribeAll_LocalOnly(c) ==
    /\ UNCHANGED table
    /\ subscriptions' = [subscriptions EXCEPT ![c] = <<>>]

\* unsubscribeAll
unsubscribeAll(c) ==
    /\ table' = UnsubscribeEach(table, subscriptions[c], clientID[c])
    /\ subscriptions' = [subscriptions EXCEPT ![c] = <<>>]

\* readPump: ReadMessage fails, the loop breaks and the deferred teardown runs
Teardown(c) ==
    /\ Alive
    /\ UNCHANGED <<coord, wire, recording, web>>
    /\ rd[c] = "read"
    /\ conn[c] # "open"
    /\ unsubscribeAll(c)
    /\ conn' = [conn EXCEPT ![c] = "closed"]
    /\ closed' = [closed EXCEPT ![c] = TRUE]
    /\ rd' = [rd EXCEPT ![c] = "done"]
    /\ want' = [want EXCEPT ![c] = {}]
    /\ UNCHANGED <<now, gw, clientID, send, wr, pending, fan, pubMsg, nframes,
                   last, panicked>>
    /\ unsubErrors' = unsubErrors \cup FailedUnsubscribes(c, subscriptions[c], "unsubscribeAll")

\* writePump that writes every envelope of the batch twice
WriteBatch_WritesTwice(c) ==
    /\ Alive
    /\ UNCHANGED <<coord, recording, unsubErrors, web>>
    /\ wr[c] = "run"
    /\ Len(send[c]) > 0
    /\ conn[c] = "open"
    /\ send' = [send EXCEPT ![c] = <<>>]
    /\ wire' = IF recording THEN [wire EXCEPT ![c] = @ \o send[c] \o send[c]] ELSE wire
    /\ UNCHANGED <<now, gw, conn, clientID, subscriptions, closed, rd, wr,
                   pending, fan, pubMsg, table, want, nframes, last,
                   panicked>>

\* ------------------------------------------------------------- writePump
\* writePump: a message is received and written with everything queued behind it
WriteBatch(c) ==
    /\ Alive
    /\ UNCHANGED <<coord, recording, unsubErrors, web>>
    /\ wr[c] = "run"
    /\ Len(send[c]) > 0
    /\ conn[c] = "open"
    /\ send' = [send EXCEPT ![c] = <<>>]
    /\ wire' = IF recording THEN [wire EXCEPT ![c] = @ \o send[c]] ELSE wire
    /\ UNCHANGED <<now, gw, conn, clientID, subscriptions, closed, rd, wr,
                   pending, fan, pubMsg, table, want, nframes, last,
                   panicked>>

\* writePump: NextWriter (atNext) or w.Close() fails; the loop returns and the
\* deferred conn.Close() runs
WriteFail(c, atNext) ==
    /\ Alive
    /\ UNCHANGED <<coord, peer, web>>
    /\ wr[c] = "run"
    /\ Len(send[c]) > 0
    /\ conn[c] # "open"
    /\ send' = [send EXCEPT ![c] = IF atNext THEN Tail(@) ELSE <<>>]
    /\ wr' = [wr EXCEPT ![c] = "done"]
    /\ conn' = [conn EXCEPT ![c] = "closed"]
    /\ UNCHANGED <<now, gw, clientID, subscriptions, closed, rd, pending, fan,
                   pubMsg, table, want, nframes, last, panicked>>

\* writePump: the receive reports the channel closed and empty
WriteClosed(c) ==
    /\ Alive
    /\ UNCHANGED <<coord, peer, web>>
    /\ wr[c] = "run"
    /\ Len(send[c]) = 0
    /\ closed[c]
    /\ wr' = [wr EXCEPT ![c] = "done"]
    /\ conn' = [conn EXCEPT ![c] = "closed"]
    /\ UNCHANGED <<now, gw, clientID, subscriptions, send, closed, rd,
                   pending, fan, pubMsg, table, want, nframes, last,
                   panicked>>

\* writePump: the ticker fires and the ping cannot be written (a ping that is
\* written changes nothing)
WritePing(c) ==
    /\ Alive
    /\ UNCHANGED <<coord, peer, web>>
    /\ wr[c] = "run"
    /\ conn[c] # "open"
    /\ wr' = [wr EXCEPT ![c] = "done"]
    /\ conn' = [conn EXCEPT ![c] = "closed"]
    /\ UNCHANGED <<now, gw, clientID, subscriptions, send, closed, rd,
                   pending, fan, pubMsg, table, want, nframes, last,
                   panicked>>

\* ------------------------------------------------------------- main
\* the service main initialises next
NextToInit == Services[CHOOSE i \in 1..Len(Services) :
                  /\ svc[Services[i]] = "none"
                  /\ \A j \in 1..(i - 1) : svc[Services[j]] # "none"]

\* main: NewBroker, NewConnector, NewSystem, NewServer in turn; an error is
\* fatal; after the last one startServices is launched and main waits for a
\* signal.  api.NewServer always returns a nil error.
InitComponent(ok) ==
    /\ Alive
    /\ mainPc = "init"
    /\ ok \/ NextToInit # "api"
    /\ IF ok
       THEN /\ svc' = [svc EXCEPT ![NextToInit] = "inited"]
            /\ mainPc' = IF NextToInit = "api" THEN "wait" ELSE "init"
       ELSE /\ mainPc' = "fatal"
            /\ UNCHANGED svc
    /\ UNCHANGED <<listening, ctxDone, http, hub, peer, web>>

\* startServices: the goroutine of service s runs Start or Connect.  An error
\* is logged.  Broker.Start returns nothing; the listener of the API server
\* does not open once Shutdown has been called.
StartService(s, ok) ==
    /\ Alive
    /\ mainPc # "init"
    /\ svc[s] = "inited"
    /\ ok \/ s # "broker"
    /\ svc' = [svc EXCEPT ![s] = IF ctxDone THEN "stopped"
                                 ELSE IF ok THEN "running" ELSE "failed"]
    /\ listening' = (listening \/ (s = "api" /\ ok /\ mainPc = "wait"))
    /\ UNCHANGED <<mainPc, ctxDone, http, hub, peer, web>>

\* a started service observes ctx.Done() and returns
StopService(s) ==
    /\ Alive
    /\ ctxDone
    /\ svc[s] = "running"
    /\ svc' = [svc EXCEPT ![s] = "stopped"]
    /\ UNCHANGED <<mainPc, listening, ctxDone, http, hub, peer, web>>

\* main: the signal arrives and apiServer.Shutdown closes the listener
BeginShutdown ==
    /\ Alive
    /\ mainPc = "wait"
    /\ mainPc' = "drain"
    /\ listening' = FALSE
    /\ UNCHANGED <<svc, ctxDone, http, hub, peer, web>>

\* main: apiServer.Shutdown returns, with nil once no handler is running or
\* with an error when the 10 seconds of shutdownCtx are over
ShutdownReturns(timedOut) ==
    /\ Alive
    /\ mainPc = "drain"
    /\ timedOut \/ http # "running"
    /\ mainPc' = "cancel"
    /\ UNCHANGED <<svc, listening, ctxDone, http, hub, peer, web>>

\* main: cancel()
Cancel ==
    /\ Alive
    /\ mainPc = "cancel"
    /\ mainPc' = "sleep"
    /\ ctxDone' = TRUE
    /\ UNCHANGED <<svc, listening, http, hub, peer, web>>

\* main: the 250 ms sleep is over and main returns
Exit ==
    /\ Alive
    /\ mainPc = "sleep"
    /\ mainPc' = "exited"
    /\ UNCHANGED <<svc, listening, ctxDone, http, hub, peer, web>>

\* the HTTP server accepts GET /api/v1/status and runs handleStatus
HttpRequest ==
    /\ Alive
    /\ listening
    /\ http # "running"
    /\ http' = "running"
    /\ UNCHANGED <<mainPc, svc, listening, ctxDone, hub, peer, web>>

\* handleStatus asks the broker for its status and answers
HttpBrokerOp ==
    /\ Alive
    /\ http = "running"
    /\ http' = "done"
    /\ UNCHANGED <<mainPc, svc, listening, ctxDone, hub, peer, web>>

\* ------------------------------------------------------------- system
Next ==
    \/ Tick
    \/ \E c \in Conns : Accept(c)
    \/ \E c \in Conns : HandlerReturn(c)
    \/ \E c \in Conns : PeerFail(c)
    \/ \E c \in Conns : \E f \in Frames : ReadMessage(c, f)
    \/ \E c \in Conns : SendBlocked(c)
    \/ \E c \in Conns : \E i \in 1..Cardinality(Conns) : Deliver(c, i)
    \/ \E c \in Conns : Teardown(c)
    \/ \E c \in Conns : WriteBatch(c)
    \/ \E c \in Conns : \E atNext \in BOOLEAN : WriteFail(c, atNext)
    \/ \E c \in Conns : WriteClosed(c)
    \/ \E c \in Conns : WritePing(c)

Spec == Init /\ [][Next]_vars

\* Every goroutine that can run is scheduled: the handler returns, the pumps
\* take their next step, the ping ticker fires.  A blocked "c.send <- env"
\* is served as soon as the buffer has room, however often other senders
\* fill it again (strong fairness).  Nothing obliges a peer to send frames
\* or to fail.
Fairness ==
    \A c \in Conns :
        /\ WF_vars(HandlerReturn(c))
        /\ SF_vars(SendBlocked(c))
        /\ WF_vars(\E i \in 1..Cardinality(Conns) : Deliver(c, i))
        /\ WF_vars(Teardown(c))
        /\ WF_vars(WriteBatch(c))
        /\ WF_vars(\E atNext \in BOOLEAN : WriteFail(c, atNext))
        /\ WF_vars(WriteClosed(c))
        /\ WF_vars(WritePing(c))

LiveSpec == Spec /\ Fairness

\* the frames of the peers in the runs that follow main from its start
MainFrames ==
    {[type |-> "subscribe", topic |-> "a", payload |-> NoPayload],
     [type |-> "publish", topic |-> "a", payload |-> "p"]}

\* main from its first line to its return, one HTTP request at a time and one
\* WebSocket connection
NextMain ==
    \/ \E ok \in BOOLEAN : InitComponent(ok)
    \/ \E s \in Range(Services) : \E ok \in BOOLEAN : StartService(s, ok)
    \/ \E s \in Range(Services) : StopService(s)
    \/ BeginShutdown
    \/ \E timedOut \in BOOLEAN : ShutdownReturns(timedOut)
    \/ Cancel
    \/ Exit
    \/ HttpRequest
    \/ HttpBrokerOp
    \/ Accept(1)
    \/ HandlerReturn(1)
    \/ PeerFail(1)
    \/ \E f \in MainFrames : ReadMessage(1, f)
    \/ SendBlocked(1)
    \/ Deliver(1, 1)
    \/ Teardown(1)
    \/ WriteBatch(1)
    \/ \E atNext \in BOOLEAN : WriteFail(1, atNext)
    \/ WriteClosed(1)
    \/ WritePing(1)

MainSpec == InitMain /\ [][NextMain]_vars

\* ------------------------------------------------------------- properties
SubscribeFrame(t) == [type |-> "subscribe", topic |-> t, payload |-> NoPayload]
UnsubscribeFrame(t) == [type |-> "unsubscribe", topic |-> t, payload |-> NoPayload]
PublishFrame(t, p) == [type |-> "publish", topic |-> t, payload |-> p]

\* this step is readPump of connection c reading and dispatching frame f
Reads(c, f) == nframes' = nframes + 1 /\ last' = [c |-> c, f |-> f]

\* connection c has a delivery callback registered for topic t
Registered(tbl, c, t) == \E i \in 1..Len(tbl[t]) : tbl[t][i].cb = c

\* the number of callbacks of connection c registered for topic t
Registrations(tbl, c, t) == Cardinality({i \in 1..Len(tbl[t]) : tbl[t][i].cb = c})

\* after this step the handler of c is at the send of exactly this ack
AckQueued(c, type, t) ==
    /\ rd'[c] = "send"
    /\ pending'[c] = createMessage(type, t, NoPayload)

\* C1: whenever the read loop of a connection has finished the frames it read,
\* its subscription set is the set obtained by applying the subscribe and
\* unsubscribe frames in arrival order to the empty set
C1_MembershipFollowsFrames ==
    \A c \in Conns : rd[c] = "read" => Range(subscriptions[c]) = want[c]

\* one connection has subscribed, unsubscribed and subscribed again to "a"
C1_Witness ==
    /\ nframes = 3
    /\ gw[2] = "idle"
    /\ rd[1] = "read"
    /\ last.f = SubscribeFrame("a")
    /\ table["a"] # <<>>
    /\ want[1] = {"a"}

\* C2: a subscribe frame for a topic already in the subscription set changes
\* neither the set nor the broker's table and still enqueues a subscribed ack
C2_DuplicateSubscribeAcked ==
    [][\A c \in Conns : \A t \in Topics :
          (Reads(c, SubscribeFrame(t)) /\ Contains(subscriptions[c], t))
          => /\ subscriptions' = subscriptions
             /\ table' = table
             /\ AckQueued(c, "subscribed", t)]_vars

\* C3: an unsubscribe frame for a topic of the subscription set removes the
\* topic from the broker and from the set and enqueues exactly one
\* unsubscribed ack; for any other topic it enqueues nothing and changes
\* neither the set nor the table
C3_UnsubscribeAckIffPresent ==
    [][\A c \in Conns :
          /\ \A t \in Topics \cup {EmptyTopic} :
                Reads(c, UnsubscribeFrame(t))
                => IF Contains(subscriptions[c], t)
                   THEN /\ ~Contains(subscriptions'[c], t)
                        /\ ~Registered(table', c, t)
                        /\ AckQueued(c, "unsubscribed", t)
                        /\ send' = send
                   ELSE /\ subscriptions' = subscriptions
                        /\ table' = table
                        /\ send' = send
                        /\ pending' = pending
                        /\ rd'[c] = "read"
          /\ (rd[c] = "send" /\ rd'[c] # "send")
                => /\ send'[c] = Append(send[c], pending[c])
                   /\ rd'[c] = "read"]_vars

\* the ack of an unsubscribe that found its topic is in the outbound queue
C3_Witness ==
    \E c \in Conns :
        /\ last.c = c
        /\ last.f.type = "unsubscribe"
        /\ rd[c] = "read"
        /\ send[c] # <<>>
        /\ send[c][Len(send[c])] = createMessage("unsubscribed", last.f.topic, NoPayload)

\* C4: every topic of a connection's subscription set has a callback of that
\* connection registered in the broker's table
C4_LocalSubsetOfBroker ==
    \A c \in Conns : \A t \in Range(subscriptions[c]) : Registered(table, c, t)

\* C5: the broker's list of a topic holds at most one callback of a connection
\* and the subscription set holds a topic at most once
C5_NoDuplicates ==
    \A c \in Conns :
        /\ \A t \in Topics : Registrations(table, c, t) <= 1
        /\ \A i, j \in 1..Len(subscriptions[c]) :
              subscriptions[c][i] = subscriptions[c][j] => i = j

\* the only connection has sent three frames, the last one a subscribe that
\* is finished, and it is registered once for the topic
C5_Witness ==
    \E t \in Topics :
        /\ nframes = 3
        /\ gw[2] = "idle"
        /\ last = [c |-> 1, f |-> SubscribeFrame(t)]
        /\ rd[1] = "read"
        /\ Registrations(table, 1, t) = 1
        /\ subscriptions[1] = <<t>>

\* this step is Broker.Publish, called by readPump c, invoking the i-th of the
\* callbacks it has still to invoke
Invokes(c, i) ==
    /\ rd[c] = "pub"
    /\ fan'[c] # fan[c]
    /\ i \in 1..Len(fan[c])
    /\ fan'[c] = RemoveAt(fan[c], i)

\* C6: an outbound queue never holds more than its capacity, and a delivery
\* to a connection whose queue is at capacity enqueues nothing, returns at
\* once and leaves the remaining callbacks of the publish to be invoked
C6_BoundedQueueDropsWhenFull ==
    /\ [](\A c \in Conns : Len(send[c]) <= SendCap)
    /\ [][\A c \in Conns :
            (rd[c] = "pub" /\ fan'[c] # fan[c])
            => \E i \in 1..Len(fan[c]) :
                  /\ Invokes(c, i)
                  /\ LET d == fan[c][i].cb IN
                     (Len(send[d]) = SendCap /\ ~closed[d])
                     => /\ send' = send
                        /\ ~panicked'
                        /\ rd'[c] = IF Len(fan[c]) = 1 THEN "read" ELSE "pub"]_vars

\* a publish is about to invoke two callbacks, one of them of a connection
\* whose queue is at capacity
C6_Witness ==
    \E c \in Conns :
        /\ rd[c] = "pub"
        /\ Len(fan[c]) = 2
        /\ \E i \in 1..2 :
              /\ Len(send[fan[c][i].cb]) = SendCap
              /\ ~closed[fan[c][i].cb]

\* C7: a publish to a topic reaches every connection registered for it, and
\* each of them gets the message envelope exactly when its own queue is not
\* full, whatever the state of the other connections, whose queues the
\* delivery leaves alone
C7_Isolation ==
    [][\A c \in Conns :
          /\ \A t \in Topics : \A p \in Payloads :
                (Reads(c, PublishFrame(t, p)) /\ table[t] # <<>>)
                => /\ rd'[c] = "pub"
                   /\ pubMsg'[c] = createMessage("message", t, p)
                   /\ \A d \in Conns :
                         Registered(table, d, t)
                         <=> \E j \in 1..Len(fan'[c]) : fan'[c][j].cb = d
          /\ (rd[c] = "pub" /\ fan'[c] # fan[c])
                => \E i \in 1..Len(fan[c]) :
                      /\ Invokes(c, i)
                      /\ LET d == fan[c][i].cb IN
                         ~closed[d]
                         => /\ send'[d] = IF Len(send[d]) < SendCap
                                          THEN Append(send[d], pubMsg[c])
                                          ELSE send[d]
                            /\ \A e \in Conns \ {d} : send'[e] = send[e]]_vars

\* a publish has delivered to one subscriber while the other subscriber, still
\* to be invoked, has its queue full with its own ack
C7_Witness ==
    \E c \in Conns : \E a, b \in Conns :
        /\ a # b
        /\ rd[c] = "pub"
        /\ Len(fan[c]) = 1
        /\ fan[c][1].cb = b
        /\ Registered(table, a, pubMsg[c].topic)
        /\ send[a] = <<pubMsg[c]>>
        /\ Len(send[b]) = SendCap
        /\ send[b][1].type = "subscribed"
        /\ ~closed[b]

\* C8: a publish frame for a topic without subscribers enqueues nothing on any
\* connection, leaves the table and every subscription set alone and returns
\* to the read loop without an error
C8_PublishWithoutSubscribers ==
    [][\A c \in Conns : \A t \in Topics : \A p \in Payloads :
          (Reads(c, PublishFrame(t, p)) /\ table[t] = <<>>)
          => /\ send' = send
             /\ pending' = pending
             /\ fan' = fan
             /\ table' = table
             /\ subscriptions' = subscriptions
             /\ rd'[c] = "read"
             /\ ~panicked']_vars

\* the first frame read by any connection was a publish, and it has returned
C8_Witness ==
    /\ nframes = 1
    /\ last.f.type = "publish"
    /\ last.f.topic \in Topics
    /\ rd[last.c] = "read"
    /\ \A c \in Conns : send[c] = <<>> /\ pending[c] = NoFrame

\* C9: once the teardown of a connection has run, the broker's table holds no
\* callback of that connection for any topic
C9_NoSubscriptionAfterTeardown ==
    \A c \in Conns : rd[c] = "done" => \A t \in Topics : ~Registered(table, c, t)

\* a connection whose last frame was a subscribe is torn down while the other
\* connection is still registered for the same topic
C9_Witness ==
    \E c \in Conns : \E t \in Topics :
        /\ rd[c] = "done"
        /\ last = [c |-> c, f |-> SubscribeFrame(t)]
        /\ pending[c] = NoFrame
        /\ \E d \in Conns \ {c} : Registered(table, d, t)

\* C10: both loops of a connection terminate together: once writePump has
\* returned, readPump eventually runs its teardown, and once readPump has
\* returned, c.send is closed and writePump eventually returns (a crash of the
\* process ends both)
C10_LoopsTerminateTogether ==
    \A c \in Conns :
        /\ (wr[c] = "done") ~> (rd[c] = "done" \/ panicked)
        /\ (rd[c] = "done") ~> (wr[c] = "done" \/ panicked)
        /\ [](rd[c] = "done" => closed[c])

\* a frame whose type is none of subscribe, unsubscribe and publish
UnknownFrame == [type |-> "ping", topic |-> EmptyTopic, payload |-> NoPayload]

\* after this step the handler of c is at the send of exactly this error
ErrorQueued(c, code) ==
    /\ rd'[c] = "send"
    /\ pending'[c] = ErrorEnvelope(code)

\* this step touches nothing but the read loop of connection c: no queue, no
\* subscription set, no table entry, no transport, nobody else's reply
OnlyReplies(c) ==
    /\ subscriptions' = subscriptions
    /\ table' = table
    /\ send' = send
    /\ conn' = conn
    /\ closed' = closed
    /\ wr' = wr
    /\ \A d \in Conns \ {c} : pending'[d] = pending[d] /\ rd'[d] = rd[d]

\* C11: when handleWebSocket returns after the upgrade it leaves the transport
\* alone unless both loops of the connection have exited
C11_HandlerLeavesConnection ==
    [][\A c \in Conns :
          (gw[c] = "upgraded" /\ gw'[c] = "returned")
          => \/ conn'[c] = conn[c]
             \/ (rd[c] = "done" /\ wr[c] = "done")]_vars

\* C12: a frame that does not decode or has an unknown type makes the handler
\* send one error envelope (invalid_message, unknown_type) to the connection
\* that sent it, changes no subscription set and no table entry, and leaves
\* the connection open with its read loop running
C12_BadFrameOnlyReplies ==
    [][\A c \in Conns :
          /\ Reads(c, Malformed)
                => ErrorQueued(c, "invalid_message") /\ OnlyReplies(c)
          /\ Reads(c, UnknownFrame)
                => ErrorQueued(c, "unknown_type") /\ OnlyReplies(c)
          /\ (rd[c] = "send" /\ rd'[c] # "send" /\ pending[c].type = "error")
                => /\ send' = [send EXCEPT ![c] = Append(@, pending[c])]
                   /\ rd'[c] = "read"
                   /\ conn' = conn
                   /\ closed' = closed]_vars

\* the error reply to a malformed frame is queued on a connection that is
\* still open and reading
C12_Witness ==
    \E c \in Conns :
        /\ last = [c |-> c, f |-> Malformed]
        /\ send[c] = <<ErrorEnvelope("invalid_message")>>
        /\ rd[c] = "read"
        /\ wr[c] = "run"
        /\ conn[c] = "open"

\* C13: when Broker.Subscribe or Broker.Publish fails, the handler sends an
\* error envelope and no ack, the subscription set and the table stay as they
\* are and the connection stays open
C13_BrokerErrorOnlyReplies ==
    [][\A c \in Conns :
          /\ (Reads(c, SubscribeFrame(EmptyTopic)))
                => ErrorQueued(c, "subscription_failed") /\ OnlyReplies(c)
          /\ \A p \in Payloads :
                Reads(c, PublishFrame(EmptyTopic, p))
                => /\ ErrorQueued(c, "publish_failed")
                   /\ OnlyReplies(c)
                   /\ fan' = fan]_vars

\* the error reply to a rejected subscribe is queued, nothing is subscribed
\* and the connection is still open and reading
C13_Witness ==
    \E c \in Conns :
        /\ last = [c |-> c, f |-> SubscribeFrame(EmptyTopic)]
        /\ send[c] = <<ErrorEnvelope("subscription_failed")>>
        /\ subscriptions[c] = <<>>
        /\ rd[c] = "read"
        /\ conn[c] = "open"

\* connection c has been accepted (NewWSClient has run for it)
Accepted(c) == gw[c] # "idle"

\* C19: any two connections accepted during the life of the process have
\* different identifiers
C19_UniqueClientIDs ==
    \A c, d \in Conns :
        (c # d /\ Accepted(c) /\ Accepted(d)) => clientID[c] # clientID[d]

\* this step leaves everything that belongs to connection d as it is
Untouched(d) ==
    /\ \A t \in Topics : Registrations(table', d, t) = Registrations(table, d, t)
    /\ subscriptions'[d] = subscriptions[d]
    /\ send'[d] = send[d]
    /\ pending'[d] = pending[d]
    /\ closed'[d] = closed[d]
    /\ conn'[d] = conn[d]
    /\ rd'[d] = rd[d]
    /\ wr'[d] = wr[d]

\* C20: a step in which the transport of a connection fails or one of its
\* loops exits (teardown included) leaves every other connection's broker
\* registrations, subscription set, queue and loops as they are
C20_FailureStaysLocal ==
    [][\A c \in Conns :
          (\/ conn[c] = "open" /\ conn'[c] = "closed"
           \/ rd[c] # "done" /\ rd'[c] = "done"
           \/ wr[c] # "done" /\ wr'[c] = "done")
          => \A d \in Conns \ {c} : Untouched(d)]_vars

\* ------------------------------------------------------------- serving
\* the payloads the peers publish: PubPayloads[c][n] is what connection c
\* publishes in the n-th frame of the run
PubPayloads ==
    << <<"1-1", "1-2", "1-3", "1-4", "1-5", "1-6">>,
       <<"2-1", "2-2", "2-3", "2-4", "2-5", "2-6">> >>

Stamp(c) == PubPayloads[c][nframes + 1]

\* the frames the peer of connection c may send next
ServingFrames(c) ==
    {[type |-> "subscribe", topic |-> "a", payload |-> NoPayload],
     [type |-> "unsubscribe", topic |-> "a", payload |-> NoPayload],
     [type |-> "publish", topic |-> "a", payload |-> Stamp(c)]}

\* the gateway is serving two connections, accepted at the same reading of
\* the clock or one tick apart; connection 1 has subscribed to "a" and its
\* peer has received the ack; the transports are captured from here on
InitServing ==
    /\ now \in 0..MaxClock
    /\ gw = [c \in Conns |-> "upgraded"]
    /\ conn = [c \in Conns |-> "open"]
    /\ clientID = [c \in Conns |-> IF c = 1 THEN generateClientID(0)
                                   ELSE generateClientID(now)]
    /\ subscriptions = [c \in Conns |-> IF c = 1 THEN <<"a">> ELSE <<>>]
    /\ send = [c \in Conns |-> <<>>]
    /\ closed = [c \in Conns |-> FALSE]
    /\ rd = [c \in Conns |-> "read"]
    /\ wr = [c \in Conns |-> "run"]
    /\ pending = [c \in Conns |-> NoFrame]
    /\ fan = [c \in Conns |-> <<>>]
    /\ pubMsg = [c \in Conns |-> NoFrame]
    /\ table = [t \in Topics |->
                  IF t = "a" THEN BrokerSubscribe([u \in Topics |-> <<>>], "a",
                                                  generateClientID(0), 1)["a"]
                  ELSE <<>>]
    /\ want = [c \in Conns |-> IF c = 1 THEN {"a"} ELSE {}]
    /\ nframes = 0
    /\ last = [c |-> 1, f |-> [type |-> "subscribe", topic |-> "a",
                               payload |-> NoPayload]]
    /\ panicked = FALSE
    /\ wire = [c \in Conns |-> IF c = 1
                               THEN <<createMessage("subscribed", "a", NoPayload)>>
                               ELSE <<>>]
    /\ recording = TRUE
    /\ unsubErrors = {}
    /\ req = NoRequest
    /\ resp = NoResponse
    /\ calls = <<>>
    /\ mainPc = "wait"
    /\ svc = [s \in Range(Services) |-> "running"]
    /\ listening = TRUE
    /\ ctxDone = FALSE
    /\ http = "none"

NextServing ==
    \/ \E c \in Conns : HandlerReturn(c)
    \/ \E c \in Conns : PeerFail(c)
    \/ \E c \in Conns : \E f \in ServingFrames(c) : ReadMessage(c, f)
    \/ \E c \in Conns : SendBlocked(c)
    \/ \E c \in Conns : \E i \in 1..Cardinality(Conns) : Deliver(c, i)
    \/ \E c \in Conns : Teardown(c)
    \/ \E c \in Conns : WriteBatch(c)
    \/ \E c \in Conns : \E atNext \in BOOLEAN : WriteFail(c, atNext)
    \/ \E c \in Conns : WriteClosed(c)
    \/ \E c \in Conns : WritePing(c)

ServingSpec == InitServing /\ [][NextServing]_vars

\* this step is readPump of connection c dispatching a publish frame for t
Publishes(c, t) ==
    /\ nframes' = nframes + 1
    /\ last'.c = c
    /\ last'.f.type = "publish"
    /\ last'.f.topic = t

\* connection c subscribed to t, has not unsubscribed since, and its peer has
\* received the ack
SubscribedAndAcked(c, t) ==
    /\ t \in want[c]
    /\ \E i \in 1..Len(wire[c]) : wire[c][i] = createMessage("subscribed", t, NoPayload)

\* connection c is active: transport open, both loops running
Active(c) ==
    /\ conn[c] = "open"
    /\ rd[c] \notin {"none", "done"}
    /\ wr[c] = "run"
    /\ ~closed[c]

\* C17: when C2 publishes to T while C1 is subscribed and acked, active and
\* with room in its queue, the Broker takes exactly one delivery to C1 of the
\* message envelope with T and the payload of the frame
C17_PublishReachesSubscriber ==
    [][\A c1 \in Conns : \A c2 \in Conns \ {c1} : \A t \in Topics :
          (/\ Publishes(c2, t)
           /\ SubscribedAndAcked(c1, t)
           /\ Active(c1)
           /\ Len(send[c1]) < SendCap)
          => /\ Cardinality({i \in 1..Len(fan'[c2]) : fan'[c2][i].cb = c1}) = 1
             /\ pubMsg'[c2] = createMessage("message", t, last'.f.payload)]_vars

\* the publisher and the position in the run of a published payload
IsStamp(p) == \E c \in Conns : \E n \in 1..Len(PubPayloads[c]) : PubPayloads[c][n] = p
PublisherOf(p) == CHOOSE c \in Conns : \E n \in 1..Len(PubPayloads[c]) : PubPayloads[c][n] = p
SeqOf(p) == CHOOSE n \in 1..Len(PubPayloads[PublisherOf(p)]) : PubPayloads[PublisherOf(p)][n] = p

\* the message envelopes for topic t published by d among the envelopes of w
MessagesFrom(w, d, t) ==
    LET FromD(e) == /\ e.type = "message"
                    /\ e.topic = t
                    /\ IsStamp(e.payload)
                    /\ PublisherOf(e.payload) = d
    IN  SelectSeq(w, FromD)

\* the payloads of w follow the publish order, none of them twice
InPublishOrder(w) ==
    \A i \in 1..Len(w) : \A j \in (i + 1)..Len(w) :
        SeqOf(w[i].payload) < SeqOf(w[j].payload)

BrokerTornDown == svc["broker"] = "stopped"

\* this step is the handling of a request performing a Broker operation:
\* handleStatus asking for the status, or the read loop started for a
\* WebSocket request dispatching a subscribe, unsubscribe or publish frame
HandlerBrokerOp ==
    \/ http = "running" /\ http' = "done"
    \/ \E c \in Conns : \E f \in Frames :
          /\ f.type \in {"subscribe", "unsubscribe", "publish"}
          /\ Reads(c, f)

\* C14: the context is cancelled only after the Gateway has stopped
\* accepting and apiServer.Shutdown has returned, and no request handler
\* performs a Broker operation once the Broker has been torn down
C14_ShutdownOrdering ==
    /\ [](ctxDone => (~listening /\ mainPc \in {"sleep", "exited"}))
    /\ [][BrokerTornDown => ~HandlerBrokerOp]_vars

\* C15: startup is fail-fast: a fatal initialisation never leaves a listener
\* open, and no service runs while another one has failed to start
C15_FailFastNoPartialStart ==
    /\ mainPc = "fatal" => (~listening /\ \A s \in Range(Services) : svc[s] # "running")
    /\ (\E s \in Range(Services) : svc[s] = "failed")
          => \A t \in Range(Services) : svc[t] # "running"

\* C16: when the process exits the Gateway has stopped accepting and every
\* connection that was accepted has both loops terminated and its teardown run
C16_WorkersExitBeforeProcess ==
    mainPc = "exited"
        => /\ ~listening
           /\ \A c \in Conns :
                 gw[c] # "idle" => (rd[c] = "done" /\ wr[c] = "done" /\ closed[c])

\* ------------------------------------------------------------- HTTP
\* the routes NewServer registers whose handlers are in server.go
Paths == {"/api/v1/status", "/api/v1/command", "/api/v1/ws",
          "/api/v1/algorithms", "/api/v1/sensors", "/api/v1/cloud/sync",
          "/api/v1/cloud/status", "/health"}

Methods == {"GET", "POST", "PUT", "DELETE"}

\* request bodies: one json.Decode rejects, and two it accepts
MalformedBody == "malformed"
Bodies == {MalformedBody, "full", "incremental"}

\* what a collaborator call returns: an error or a value
Outcomes == [err : BOOLEAN, val : {"abc123", "r2"}]

\* what Upgrader.Upgrade has written when it refuses a request
UpgradeRefusals == {400, 405}

\* one operation invoked with arg, and what it returned
Call(op, arg, out) == [op |-> op, arg |-> arg, err |-> out.err, val |-> out.val]

\* Status() returns a string and no error
Online == [err |-> FALSE, val |-> "online"]

\* http.Error(w, text, code)
HttpError(code, text) == [status |-> code, key |-> "text", val |-> text]

\* json.NewEncoder(w).Encode(...) after an implicit 200
Json(key, val) == [status |-> 200, key |-> key, val |-> val]

Reply(r, cs) == [resp |-> r, calls |-> cs]

MethodNotAllowed == Reply(HttpError(405, "Method not allowed"), <<>>)
InvalidBody == Reply(HttpError(400, "Invalid request body"), <<>>)

\* the call of one collaborator operation and the branch on its error
Delegate(op, arg, out, failText, key) ==
    IF out.err
    THEN Reply(HttpError(500, failText), <<Call(op, arg, out)>>)
    ELSE Reply(Json(key, out.val), <<Call(op, arg, out)>>)

handleStatus(r, out) ==
    IF r.method # "GET" THEN MethodNotAllowed
    ELSE Reply(Json("status", "operational"),
               <<Call("core.Status", "none", Online),
                 Call("cloud.Status", "none", Online),
                 Call("broker.Status", "none", Online)>>)

\* handleCommand that calls the core system whatever the decoder said
handleCommand_DecodeErrorIgnored(r, out) ==
    IF r.method # "POST" THEN MethodNotAllowed
    ELSE Delegate("core.ExecuteCommand", r.body, out,
                  "Command execution failed", "result")

handleCommand(r, out) ==
    IF r.method # "POST" THEN MethodNotAllowed
    ELSE IF r.body = MalformedBody THEN InvalidBody
    ELSE Delegate("core.ExecuteCommand", r.body, out,
                  "Command execution failed", "result")

\* handleWebSocket: Upgrade answers by itself when it refuses; refusal is
\* what it does for every method but GET
handleWebSocket(r, refusal, upgraded) ==
    IF r.method = "GET" /\ upgraded
    THEN Reply([status |-> 101, key |-> "none", val |-> "none"], <<>>)
    ELSE Reply(HttpError(refusal, "upgrade refused"), <<>>)

handleAlgorithms(r, out) ==
    IF r.method = "GET"
    THEN Delegate("core.GetAlgorithms", "none", out,
                  "Failed to get algorithms", "algorithms")
    ELSE IF r.method = "POST"
    THEN IF r.body = MalformedBody THEN InvalidBody
         ELSE Delegate("core.RegisterAlgorithm", r.body, out,
                       "Algorithm registration failed", "id")
    ELSE MethodNotAllowed

handleSensors(r, out) ==
    IF r.method = "GET"
    THEN Delegate("core.GetSensorData", "none", out,
                  "Failed to get sensor data", "sensors")
    ELSE MethodNotAllowed

handleCloudSync(r, out) ==
    IF r.method = "POST"
    THEN IF r.body = MalformedBody THEN InvalidBody
         ELSE Delegate("cloud.TriggerSync", r.body, out,
                       "Failed to start sync", "sync_id")
    ELSE MethodNotAllowed

handleCloudStatus(r, out) ==
    IF r.method # "GET" THEN MethodNotAllowed
    ELSE Delegate("cloud.GetSyncStatus", "none", out,
                  "Failed to get cloud status", "sync_status")

\* the closure registered for /health
handleHealth(r) == Reply([status |-> 200, key |-> "text", val |-> "OK"], <<>>)

\* the ServeMux built by NewServer
ServeMux(r, out, refusal, upgraded) ==
    CASE r.path = "/api/v1/status" -> handleStatus(r, out)
      [] r.path = "/api/v1/command" -> handleCommand(r, out)
      [] r.path = "/api/v1/ws" -> handleWebSocket(r, refusal, upgraded)
      [] r.path = "/api/v1/algorithms" -> handleAlgorithms(r, out)
      [] r.path = "/api/v1/sensors" -> handleSensors(r, out)
      [] r.path = "/api/v1/cloud/sync" -> handleCloudSync(r, out)
      [] r.path = "/api/v1/cloud/status" -> handleCloudStatus(r, out)
      [] r.path = "/health" -> handleHealth(r)

\* a request arrives on the listener
Request(path, method, body) ==
    /\ Alive
    /\ listening
    /\ resp # NoResponse \/ req = NoRequest
    /\ req' = [path |-> path, method |-> method, body |-> body]
    /\ resp' = NoResponse
    /\ calls' = <<>>
    /\ UNCHANGED <<hub, coord, peer>>

\* the handler of the route runs to its return
ServeHTTP(out, refusal, upgraded) ==
    /\ Alive
    /\ req # NoRequest
    /\ resp = NoResponse
    /\ resp' = ServeMux(req, out, refusal, upgraded).resp
    /\ calls' = ServeMux(req, out, refusal, upgraded).calls
    /\ UNCHANGED <<req, hub, coord, peer>>

NextHttp ==
    \/ \E path \in Paths : \E method \in Methods : \E body \in Bodies :
          Request(path, method, body)
    \/ \E out \in Outcomes : \E refusal \in UpgradeRefusals :
          \E upgraded \in BOOLEAN : ServeHTTP(out, refusal, upgraded)

HttpSpec == Init /\ [][NextHttp]_vars

\* the methods the interface lists for a path
Listed(path) == IF path \in {"/api/v1/command", "/api/v1/cloud/sync"} THEN {"POST"}
                ELSE IF path = "/api/v1/algorithms" THEN {"GET", "POST"}
                ELSE {"GET"}

Answered == req # NoRequest /\ resp # NoResponse

\* C21: a method the interface does not list for the path is answered 405
\* and no collaborator or Broker operation is invoked
C21_UnlistedMethodIs405 ==
    (Answered /\ req.method \notin Listed(req.path))
        => (resp.status = 405 /\ calls = <<>>)

\* the delegating endpoints, the operation each one delegates to and the key
\* of its answer
Delegating == req.method = "POST" /\ req.path \in {"/api/v1/command",
                  "/api/v1/algorithms", "/api/v1/cloud/sync"}

OperationOf(path) ==
    CASE path = "/api/v1/command" -> "core.ExecuteCommand"
      [] path = "/api/v1/algorithms" -> "core.RegisterAlgorithm"
      [] path = "/api/v1/cloud/sync" -> "cloud.TriggerSync"

KeyOf(path) ==
    CASE path = "/api/v1/command" -> "result"
      [] path = "/api/v1/algorithms" -> "id"
      [] path = "/api/v1/cloud/sync" -> "sync_id"

\* C22: a delegating endpoint answers a malformed body with 400 and no call;
\* a well-formed one makes exactly one call of its operation with the decoded
\* body, answers 500 iff the call returned an error and otherwise 200 with
\* the value returned
C22_DelegationExactlyOnce ==
    (Answered /\ Delegating)
        => IF req.body = MalformedBody
           THEN resp.status = 400 /\ calls = <<>>
           ELSE /\ Len(calls) = 1
                /\ calls[1].op = OperationOf(req.path)
                /\ calls[1].arg = req.body
                /\ (resp.status = 500) <=> calls[1].err
                /\ ~calls[1].err => resp = Json(KeyOf(req.path), calls[1].val)

\* POST /api/v1/cloud/sync with mode "full" and a collaborator returning
\* "abc123" has been answered 200 {sync_id: abc123}
C22_Witness ==
    /\ req = [path |-> "/api/v1/cloud/sync", method |-> "POST", body |-> "full"]
    /\ resp = Json("sync_id", "abc123")
    /\ calls = <<Call("cloud.TriggerSync", "full", [err |-> FALSE, val |-> "abc123"])>>

\* ------------------------------------------------------------- teardown
\* C23: the teardown of a connection, whether or not Broker.Unsubscribe fails
\* for some of its topics, leaves no registration under its identifier for
\* any topic of its local set, empties the set, closes the queue and the
\* transport, and does not crash the process
C23_TeardownBestEffort ==
    [][\A c \in Conns :
          (rd[c] # "done" /\ rd'[c] = "done")
          => /\ subscriptions'[c] = <<>>
             /\ closed'[c]
             /\ conn'[c] = "closed"
             /\ ~panicked'
             /\ \A i \in 1..Len(subscriptions[c]) :
                   \A k \in 1..Len(table'[subscriptions[c][i]]) :
                       table'[subscriptions[c][i]][k].id # clientID[c]]_vars

\* a teardown has run to its end although an Unsubscribe of it failed
C23_Witness ==
    \E c \in Conns : \E t \in Topics :
        /\ [c |-> c, topic |-> t, site |-> "unsubscribeAll"] \in unsubErrors
        /\ rd[c] = "done"
        /\ closed[c]
        /\ conn[c] = "closed"
        /\ subscriptions[c] = <<>>
        /\ ~panicked

\* C24: the Broker never invokes the delivery callback of a connection whose
\* outbound queue has been closed, so no goroutine panics on a send
C24_NoSendOnClosedQueue ==
    /\ [][\A c \in Conns : \A i \in 1..Cardinality(Conns) :
             Invokes(c, i) => ~closed[fan[c][i].cb]]_vars
    /\ [](~panicked)

\* C25: a handler blocked on the send of an ack or an error envelope always
\* gets it enqueued, and a read loop whose transport has failed always reaches
\* the end of its teardown
C25_ReadLoopNeverStuck ==
    \A c \in Conns :
        /\ (rd[c] = "send") ~> (rd[c] # "send" \/ ~Alive)
        /\ (rd[c] \in {"read", "send", "pub"} /\ conn[c] # "open")
              ~> (rd[c] = "done" \/ ~Alive)

\* C26: no message envelope for a topic is enqueued for a connection while
\* the subscribed ack of its subscription to that topic is still to be
\* enqueued
C26_AckBeforeDelivery ==
    [][\A c \in Conns : \A i \in 1..Cardinality(Conns) :
          Invokes(c, i)
          => LET d == fan[c][i].cb
             IN  ~ /\ send'[d] = Append(send[d], pubMsg[c])
                   /\ rd[d] = "send"
                   /\ pending[d] = createMessage("subscribed", pubMsg[c].topic,
                                                 NoPayload)]_vars

====
